---- MODULE Spec2Model ----
(***************************************************************************)
(* State-machine model of the DataHaven end-to-end storage workflow:       *)
(*   - run()                      the orchestrator        (index.ts)       *)
(*   - uploadFile                 operations/fileOperations.ts             *)
(*   - waitForMSPConfirmOnChain   operations/fileOperations.ts             *)
(*   - waitForBackendFileReady    operations/fileOperations.ts             *)
(*   - authenticateUser           services/mspService.ts                   *)
(* Every await of the code is one step of the model.  The answers of the   *)
(* chain, of the MSP backend and of the SDK are inputs, chosen with \E.    *)
(***************************************************************************)
EXTENDS Integers, Sequences, FiniteSets, TLC

\* ------------------------------------------------------------------ bounds
\* Longest multiaddress, in tokens, and longest multiaddress list.
MaxAddrLen == 2
MaxAddrs == 2

\* ------------------------------------------------------- program constants
\* waitForMSPConfirmOnChain: maxAttempts, delayMs
MspMaxAttempts == 10
MspDelayMs == 2000
\* waitForBackendFileReady: maxAttempts, delayMs
FileMaxAttempts == 144
FileDelayMs == 5000
\* waitForBackendFileReady: the HTTP status of a not-found reply
HttpNotFound == 404
HttpOk == 200
\* downloadFile has no response yet.
NoStatus == 0
MaxFileLen == 2
MaxValueProps == 2

\* ------------------------------------------------------------- the run
\* The steps of run(), in the order of its awaits (after initWasm).
Order ==
  << "getMspHealth", "createBucket", "verifyBucketCreation",
     "waitForBackendBucketReady", "uploadFile", "waitForMSPConfirmOnChain",
     "waitForBackendFileReady", "downloadFile", "verifyDownload",
     "disconnect" >>

\* ------------------------------------------------------------- values
BucketIds == {"0xb1", "0xb2"}
Fingerprints == {"0xf1", "0xf2"}
\* The fingerprint fileManager.getFingerprint() computes for the one file.
LocalFingerprint == "0xf1"
Owner == "0xowner"
FileName == "datahaven.png"
NoFileKey == << "none", "none", "none" >>
SessionTokens == {"token1", "token2"}
Metas == {"meta1", "meta2"}

\* A multiaddress is a sequence of tokens; P2P stands for the text "/p2p/",
\* every other token for a piece of text that does not contain it.
P2P == "/p2p/"
AddrTokens == {P2P, "x"}

RECURSIVE SeqsUpTo(_, _)
SeqsUpTo(S, n) ==
  IF n = 0 THEN { << >> }
  ELSE LET shorter == SeqsUpTo(S, n - 1)
       IN  shorter \cup { Append(s, x) : s \in { t \in shorter : Len(t) = n - 1 }, x \in S }

Addrs == SeqsUpTo(AddrTokens, MaxAddrLen)
\* What getMspInfo() may report: no multiaddresses field, or a list.
MultiaddressValues ==
  { [present |-> FALSE, list |-> << >>] }
    \cup { [present |-> TRUE, list |-> l] : l \in SeqsUpTo(Addrs, MaxAddrs) }
NoMultiaddresses == [present |-> FALSE, list |-> << >>]

\* ------------------------------------------------------------- errors
\* A thrown value: the fields the code reads (status, body.error), the
\* message, and the key and the number of milliseconds the message names.
Error(msg) == [status |-> 0, body |-> "none", msg |-> msg, key |-> NoFileKey, ms |-> 0]
NoError == Error("none")
ErrExternal == Error("rejected by a collaborator")
ErrDownloadStatus(status) == [Error("Download failed with status") EXCEPT !.status = status]
ErrWriteStream == Error("write stream error")
ErrMultiaddressesMissing == Error("MSP multiaddresses are missing")
ErrNoPeerId == Error("MSP multiaddresses had no /p2p/<peerId> segment")
ErrNoTxHash == Error("issueStorageRequest() did not return a transaction hash")
ErrStorageRequestFailed == Error("Storage request failed")
ErrNotOnChain == Error("Storage request not found on chain")
ErrUploadFailed == Error("File upload to MSP failed")
ErrRevoked == Error("File upload was cancelled by user")
ErrRejected == Error("File upload was rejected by MSP")
ErrExpired == Error("Storage request expired: the required number of BSP replicas was not achieved within the deadline")
ErrFileTimeout == Error("Timed out waiting for MSP backend to mark file as ready")
ErrGone(k) == [Error("StorageRequest no longer exists on-chain.") EXCEPT !.key = k]
ErrMspTimeout(k, waited) ==
  [Error("FileKey not ready for download after waiting") EXCEPT !.key = k, !.ms = waited]

VARIABLES
  pc,               \* run(): "initWasm", the step being awaited, "done", "failed"
  fpc,              \* position inside the awaited function
  err,              \* the error the awaited function threw
  started,          \* steps of run() started so far, in order
  completed,        \* steps of run() that returned, in order
  connOpen,         \* polkadotApi is connected
  disconnects,      \* number of times the connection was closed
  bucketId,         \* run(): bucketId
  fileKey,          \* uploadFile / run(): fileKey
  isValid,          \* run(): isValid
  sessionToken,     \* mspService: sessionToken
  multiaddresses,   \* uploadFile: multiaddresses
  peerIds,          \* uploadFile: peerIds
  storageRequestData, \* uploadFile: storageRequestData
  txSubmitted,      \* number of issueStorageRequest transactions submitted
  authCalls,        \* number of authenticateUser calls
  uploadCalls,      \* number of mspClient.files.uploadFile calls
  uploadReceipt,    \* uploadFile: uploadReceipt.status
  txHash,           \* uploadFile: txHash
  receiptStatus,    \* uploadFile: receipt.status
  siweSession,      \* authenticateUser: siweSession.token
  authProfile,      \* uploadFile: authProfile
  i,                \* the polling loop's i
  reads,            \* queries the polling loop has issued
  delays,           \* delays the polling loop has slept
  sleptMs,          \* milliseconds slept by the polling loop
  hist,             \* waitForMSPConfirmOnChain: the records read, in order
  resp,             \* waitForBackendFileReady: the reply to the last query
  onlyPending,      \* every reply so far was a file info with a status to wait on
  ret,              \* the value the awaited function returned
  destInit,         \* the file at downloadedFilePath when downloadFile was called
  destFile,         \* the file at downloadedFilePath
  dlStatus,         \* downloadFile: downloadResponse.status
  contentType,      \* downloadFile: downloadResponse.contentType
  wsState,          \* downloadFile: writeStream
  srcState,         \* downloadFile: readableStream
  buffered,         \* bytes writeStream has accepted and not yet written
  received,         \* number of bytes readableStream has handed to writeStream
  downloadedFile,   \* run(): downloadedFile
  originalBuffer,   \* verifyDownload: originalBuffer
  downloadedBuffer, \* verifyDownload: downloadedBuffer
  summary,          \* the lines run() logs after verifyDownload
  valueProps,       \* getValueProps: valueProps
  valuePropId       \* getValueProps: valuePropId

runVars == << started, completed, connOpen, disconnects, bucketId, isValid >>
upVars == << multiaddresses, peerIds, storageRequestData, uploadReceipt, txHash,
            receiptStatus, siweSession, authProfile >>
callVars == << txSubmitted, authCalls, uploadCalls >>
pollVars == << i, reads, delays, sleptMs, hist, resp, onlyPending >>
fsVars == << destInit, destFile >>
dlVars == << dlStatus, contentType, wsState, srcState, buffered, received, downloadedFile >>
vdVars == << originalBuffer, downloadedBuffer >>
ioVars == << fsVars, dlVars, vdVars, summary >>
vpVars == << valueProps, valuePropId >>
vars ==
  << pc, fpc, err, runVars, fileKey, sessionToken, upVars, callVars, pollVars, ret, ioVars,
     vpVars >>

\* ------------------------------------------------------------- replies
NoStorageRequest == [isSome |-> FALSE, bucketId |-> "none", fingerprint |-> "none"]
NoResp == [kind |-> "none", status |-> "none", meta |-> "none", error |-> NoError]
NoRet == NoResp
\* What polkadotApi.query.fileSystem.storageRequests(fileKey) may hold for
\* uploadFile: nothing, or a record with a bucket id and a fingerprint.
StorageRequests ==
  { NoStorageRequest }
    \cup { [isSome |-> TRUE, bucketId |-> b, fingerprint |-> f] :
             b \in BucketIds, f \in Fingerprints }

\* A path with no file, and a path holding the bytes `bytes`.
NoFile == [exists |-> FALSE, bytes |-> << >>]
FileOf(bytes) == [exists |-> TRUE, bytes |-> bytes]
\* What downloadedFilePath may hold when downloadFile is called: nothing, or
\* the file an earlier run left there.
DestFiles == { NoFile, FileOf(<< 1 >>) }
NoBuffer == [read |-> FALSE, bytes |-> << >>]
NoDownloadedFile == [resolved |-> FALSE, size |-> 0, mime |-> "undefined"]

NoValueProps == [answered |-> FALSE, isArray |-> FALSE, list |-> << >>]

Init ==
  /\ valueProps = NoValueProps
  /\ valuePropId = "none"
  /\ destInit = NoFile
  /\ destFile = destInit
  /\ dlStatus = NoStatus
  /\ contentType = "none"
  /\ wsState = "none"
  /\ srcState = "none"
  /\ buffered = << >>
  /\ received = 0
  /\ downloadedFile = NoDownloadedFile
  /\ originalBuffer = NoBuffer
  /\ downloadedBuffer = NoBuffer
  /\ summary = << >>
  /\ pc = "initWasm"
  /\ fpc = "call"
  /\ err = NoError
  /\ started = << >>
  /\ completed = << >>
  /\ connOpen = TRUE
  /\ disconnects = 0
  /\ bucketId = "none"
  /\ fileKey = NoFileKey
  /\ isValid = FALSE
  /\ sessionToken = "undefined"
  /\ multiaddresses = NoMultiaddresses
  /\ peerIds = << >>
  /\ storageRequestData = NoStorageRequest
  /\ uploadReceipt = "none"
  /\ txHash = "none"
  /\ receiptStatus = "none"
  /\ siweSession = "none"
  /\ authProfile = "none"
  /\ txSubmitted = 0
  /\ authCalls = 0
  /\ uploadCalls = 0
  /\ i = 0
  /\ reads = 0
  /\ delays = 0
  /\ sleptMs = 0
  /\ hist = << >>
  /\ resp = NoResp
  /\ onlyPending = TRUE
  /\ ret = NoRet

\* ------------------------------------------------- how a function ends
\* `throw e`: the awaited promise rejects with e.
Raise(e) ==
  /\ fpc' = "threw"
  /\ err' = e
  /\ ret' = ret

\* `return v`: the awaited promise resolves with v.
Return(v) ==
  /\ fpc' = "returned"
  /\ ret' = v
  /\ err' = err

\* The function goes on to its next await.
Goto(label) ==
  /\ fpc' = label
  /\ err' = err
  /\ ret' = ret

At(step, label) == pc = step /\ fpc = label

\* ------------------------------------------------------------- run()
IndexOf(step) == CHOOSE k \in 1..Len(Order) : Order[k] = step

\* run() with the two waits after the upload in the other order.
StepAfter_WaitsSwapped(step) ==
  CASE step = "initWasm" -> Order[1]
    [] step = "uploadFile" -> "waitForBackendFileReady"
    [] step = "waitForBackendFileReady" -> "waitForMSPConfirmOnChain"
    [] step = "waitForMSPConfirmOnChain" -> "downloadFile"
    [] step = "disconnect" -> "done"
    [] OTHER -> Order[IndexOf(step) + 1]

\* The step run() awaits after `step` has returned ("done" after the last).
StepAfter(step) ==
  IF step = "initWasm" THEN Order[1]
  ELSE IF IndexOf(step) = Len(Order) THEN "done"
  ELSE Order[IndexOf(step) + 1]

ResetLocals ==
  /\ multiaddresses' = NoMultiaddresses
  /\ peerIds' = << >>
  /\ storageRequestData' = NoStorageRequest
  /\ uploadReceipt' = "none"
  /\ txHash' = "none"
  /\ receiptStatus' = "none"
  /\ siweSession' = "none"
  /\ authProfile' = "none"
  /\ i' = 0
  /\ reads' = 0
  /\ delays' = 0
  /\ sleptMs' = 0
  /\ hist' = << >>
  /\ resp' = NoResp
  /\ onlyPending' = TRUE
  /\ dlStatus' = NoStatus
  /\ contentType' = "none"
  /\ wsState' = "none"
  /\ srcState' = "none"
  /\ buffered' = << >>
  /\ received' = 0
  /\ originalBuffer' = NoBuffer
  /\ downloadedBuffer' = NoBuffer
  /\ valueProps' = NoValueProps
  /\ valuePropId' = "none"

\* await initWasm()
InitWasm ==
  /\ At("initWasm", "call")
  /\ \/ Return(NoRet)
     \/ Raise(ErrExternal)
  /\ UNCHANGED << pc, runVars, fileKey, sessionToken, upVars, callVars, pollVars, ioVars, vpVars >>

\* console.log(`File integrity verified: ${isValid ? 'PASSED' : 'FAILED'}`)
IntegrityLine(valid) == IF valid THEN "PASSED" ELSE "FAILED"
CompletedLine == "Completed Successfully"

\* run() throwing when the integrity check has failed.
RunNext_AbortOnInvalid ==
  /\ fpc = "returned"
  /\ pc \notin {"done", "failed"}
  /\ IF pc = "verifyDownload" /\ ~isValid
     THEN /\ pc' = "failed"
          /\ fpc' = "none"
          /\ err' = Error("integrity check failed")
          /\ UNCHANGED << ret, started, completed, upVars, pollVars, dlVars, vdVars,
                          summary, vpVars >>
     ELSE /\ pc' = StepAfter(pc)
          /\ completed' = IF pc = "initWasm" THEN completed ELSE Append(completed, pc)
          /\ started' =
               IF StepAfter(pc) = "done" THEN started ELSE Append(started, StepAfter(pc))
          /\ fpc' = IF StepAfter(pc) = "done" THEN "none" ELSE "call"
          /\ ret' = NoRet
          /\ summary' =
               IF pc = "verifyDownload"
               THEN << IntegrityLine(isValid), CompletedLine >> ELSE summary
          /\ ResetLocals
          /\ UNCHANGED << err, downloadedFile >>
  /\ IF pc # "verifyDownload" /\ StepAfter(pc) = "downloadFile"
     THEN destInit' \in DestFiles /\ destFile' = destInit'
     ELSE UNCHANGED fsVars
  /\ UNCHANGED << connOpen, disconnects, bucketId, isValid, fileKey, sessionToken,
                  callVars >>

\* An await of run() resolves: the step is complete and the next statement
\* of run() starts the next step.  The callee's locals are gone.  The two
\* lines logged after verifyDownload are part of the step to disconnect.
\* Nothing in run() touches downloadedFilePath before downloadFile: what the
\* path holds when downloadFile is called is the file system's to say.
RunNext ==
  /\ fpc = "returned"
  /\ pc \notin {"done", "failed"}
  /\ pc' = StepAfter(pc)
  /\ completed' = IF pc = "initWasm" THEN completed ELSE Append(completed, pc)
  /\ started' = IF StepAfter(pc) = "done" THEN started ELSE Append(started, StepAfter(pc))
  /\ fpc' = IF StepAfter(pc) = "done" THEN "none" ELSE "call"
  /\ ret' = NoRet
  /\ summary' =
       IF pc = "verifyDownload" THEN << IntegrityLine(isValid), CompletedLine >> ELSE summary
  /\ ResetLocals
  /\ IF StepAfter(pc) = "downloadFile"
     THEN destInit' \in DestFiles /\ destFile' = destInit'
     ELSE UNCHANGED fsVars
  /\ UNCHANGED << err, connOpen, disconnects, bucketId, isValid, fileKey, sessionToken,
                  callVars, downloadedFile >>

\* run() closing the connection in a finally clause.
RunAbort_Finally ==
  /\ fpc = "threw"
  /\ pc \notin {"done", "failed"}
  /\ pc' = "failed"
  /\ fpc' = "none"
  /\ connOpen' = FALSE
  /\ disconnects' = disconnects + 1
  /\ UNCHANGED << err, ret, started, completed, bucketId, isValid, fileKey, sessionToken,
                  upVars, callVars, pollVars, ioVars, vpVars >>

\* An await of run() rejects: nothing in run() catches, so run() is over.
RunAbort ==
  /\ fpc = "threw"
  /\ pc \notin {"done", "failed"}
  /\ pc' = "failed"
  /\ fpc' = "none"
  /\ UNCHANGED << err, ret, runVars, fileKey, sessionToken, upVars, callVars, pollVars,
                  ioVars, vpVars >>

\* 1. await getMspHealth()
GetMspHealth ==
  /\ At("getMspHealth", "call")
  /\ \/ Return(NoRet)
     \/ Raise(ErrExternal)
  /\ UNCHANGED << pc, runVars, fileKey, sessionToken, upVars, callVars, pollVars, ioVars, vpVars >>

\* ------------------------------------------------------------ createBucket
ValuePropIds == {"0xv1", "0xv2"}
ValueProps == { [id |-> v] : v \in ValuePropIds }
\* What mspClient.info.getValuePropositions() may resolve with: an array of
\* value propositions, or a value that is no array, whatever it holds.
ValuePropsValues ==
  { [answered |-> TRUE, isArray |-> a, list |-> l] :
      a \in BOOLEAN, l \in SeqsUpTo(ValueProps, MaxValueProps) }
ErrNoValueProps == Error("No value propositions available from MSP")

\* !Array.isArray(valueProps) || valueProps.length === 0
NoneAvailable(v) == ~v.isArray \/ Len(v.list) = 0

\* A selection of the last value proposition.
ChosenValuePropId_Last(v) == v.list[Len(v.list)].id

\* valueProps[0].id
ChosenValuePropId(v) == v.list[1].id

\* createBucket: const valuePropId = await getValueProps()
GetValueProps ==
  /\ At("createBucket", "call")
  /\ \/ \E v \in ValuePropsValues :
          /\ valueProps' = v
          /\ IF NoneAvailable(v)
             THEN /\ Raise(ErrNoValueProps)
                  /\ valuePropId' = valuePropId
             ELSE /\ valuePropId' = ChosenValuePropId(v)
                  /\ Goto("createBucket")
     \/ /\ Raise(ErrExternal)
        /\ UNCHANGED vpVars
  /\ UNCHANGED << pc, runVars, fileKey, sessionToken, upVars, callVars, pollVars, ioVars >>

\* 2. const { bucketId, txReceipt } = await createBucket(bucketName): the
\* transaction that creates the bucket under the chosen value proposition.
CreateBucket ==
  /\ At("createBucket", "createBucket")
  /\ \/ /\ \E b \in BucketIds : bucketId' = b
        /\ Return(NoRet)
     \/ /\ Raise(ErrExternal)
        /\ bucketId' = bucketId
  /\ UNCHANGED << pc, started, completed, connOpen, disconnects, isValid, fileKey,
                  sessionToken, upVars, callVars, pollVars, ioVars, vpVars >>

\* 3. await verifyBucketCreation(bucketId)
VerifyBucketCreation ==
  /\ At("verifyBucketCreation", "call")
  /\ \/ Return(NoRet)
     \/ Raise(ErrExternal)
  /\ UNCHANGED << pc, runVars, fileKey, sessionToken, upVars, callVars, pollVars, ioVars, vpVars >>

\* 4. await waitForBackendBucketReady(bucketId)
WaitForBackendBucketReady ==
  /\ At("waitForBackendBucketReady", "call")
  /\ \/ Return(NoRet)
     \/ Raise(ErrExternal)
  /\ UNCHANGED << pc, runVars, fileKey, sessionToken, upVars, callVars, pollVars, ioVars, vpVars >>

\* ------------------------------------------------------------ downloadFile
Bytes == {0, 1}
Files == SeqsUpTo(Bytes, MaxFileLen)
DownloadStatuses == {HttpOk, HttpNotFound, 500}
ContentTypes == {"null", "image/png"}

\* const mime = contentType === null ? undefined : contentType
Mime(ct) == IF ct = "null" THEN "undefined" ELSE ct

\* A check that lets every status below 500 through.
StatusOk_Below500(status) == status < 500

\* downloadResponse.status !== 200 is the failure
StatusOk(status) == status = HttpOk

FrameDl == UNCHANGED << pc, runVars, fileKey, sessionToken, upVars, callVars, pollVars, vdVars,
                        destInit, summary, vpVars >>

\* 7. await mspClient.files.downloadFile(fileKey.toHex()); the status check;
\* createWriteStream, Readable.fromWeb, pipe and the two listeners, all before
\* downloadFile first yields on its promise.
DlRequest ==
  /\ At("downloadFile", "call")
  /\ \/ \E status \in DownloadStatuses, ct \in ContentTypes :
          /\ dlStatus' = status
          /\ contentType' = ct
          /\ IF ~StatusOk(status)
             THEN /\ Raise(ErrDownloadStatus(status))
                  /\ UNCHANGED << wsState, srcState >>
             ELSE /\ wsState' = "opening"
                  /\ srcState' = "flowing"
                  /\ Goto("streaming")
     \/ /\ Raise(ErrExternal)
        /\ UNCHANGED << dlStatus, contentType, wsState, srcState >>
  /\ UNCHANGED << destFile, buffered, received, downloadedFile >>
  /\ FrameDl

\* writeStream opens downloadPath with flag 'w': the file is created or
\* truncated; a failure to open is the stream's 'error'.
DlOpen ==
  /\ At("downloadFile", "streaming")
  /\ wsState = "opening"
  /\ \/ /\ wsState' = "open"
        /\ destFile' = FileOf(<< >>)
        /\ Goto("streaming")
     \/ /\ wsState' = "errored"
        /\ destFile' = destFile
        /\ Raise(ErrWriteStream)
  /\ UNCHANGED << dlStatus, contentType, srcState, buffered, received, downloadedFile >>
  /\ FrameDl

\* readableStream hands a chunk to writeStream.write().
DlChunk ==
  /\ At("downloadFile", "streaming")
  /\ srcState = "flowing"
  /\ wsState \in {"opening", "open"}
  /\ received < MaxFileLen
  /\ \E b \in Bytes : buffered' = Append(buffered, b)
  /\ received' = received + 1
  /\ Goto("streaming")
  /\ UNCHANGED << dlStatus, contentType, wsState, srcState, destFile, downloadedFile >>
  /\ FrameDl

\* writeStream writes its oldest chunk to the file, or fails:
\* writeStream.on('error', reject).
DlFlush ==
  /\ At("downloadFile", "streaming")
  /\ wsState = "open"
  /\ buffered # << >>
  /\ \/ /\ destFile' = FileOf(Append(destFile.bytes, Head(buffered)))
        /\ buffered' = Tail(buffered)
        /\ wsState' = wsState
        /\ Goto("streaming")
     \/ /\ wsState' = "errored"
        /\ UNCHANGED << destFile, buffered >>
        /\ Raise(ErrWriteStream)
  /\ UNCHANGED << dlStatus, contentType, srcState, received, downloadedFile >>
  /\ FrameDl

\* readableStream ends: pipe() calls writeStream.end().
DlSourceEnd ==
  /\ At("downloadFile", "streaming")
  /\ srcState = "flowing"
  /\ srcState' = "ended"
  /\ Goto("streaming")
  /\ UNCHANGED << dlStatus, contentType, wsState, destFile, buffered, received,
                  downloadedFile >>
  /\ FrameDl

\* readableStream emits 'error'.  pipe() does not pass it on and nothing
\* listens for it on readableStream: writeStream is never ended, neither
\* resolve nor reject is ever called.
DlSourceError ==
  /\ At("downloadFile", "streaming")
  /\ srcState = "flowing"
  /\ srcState' = "errored"
  /\ Goto("unsettled")
  /\ UNCHANGED << dlStatus, contentType, wsState, destFile, buffered, received,
                  downloadedFile >>
  /\ FrameDl

\* A write stream that emitted 'finish' as soon as end() was called.
FinishReady_OnEnd == srcState = "ended" /\ wsState = "open"

\* writeStream emits 'finish' once end() was called and every chunk it had
\* accepted is written.
FinishReady == srcState = "ended" /\ wsState = "open" /\ buffered = << >>

\* 'finish': the listener starts and awaits fs.stat(downloadPath).
DlFinish ==
  /\ At("downloadFile", "streaming")
  /\ FinishReady
  /\ wsState' = "finished"
  /\ Goto("stat")
  /\ UNCHANGED << dlStatus, contentType, srcState, destFile, buffered, received,
                  downloadedFile >>
  /\ FrameDl

\* fs.stat answers and the listener resolves with { path, size, mime }; or
\* fs.stat rejects: the rejection is the listener's own, resolve and reject
\* are never called.
DlStat ==
  /\ At("downloadFile", "stat")
  /\ \/ /\ downloadedFile' =
             [resolved |-> TRUE, size |-> Len(destFile.bytes), mime |-> Mime(contentType)]
        /\ Return(NoRet)
     \/ /\ downloadedFile' = downloadedFile
        /\ Goto("unsettled")
  /\ UNCHANGED << dlStatus, contentType, wsState, srcState, destFile, buffered, received >>
  /\ FrameDl

\* ---------------------------------------------------------- verifyDownload
\* Buffer.compare: bytewise over the common prefix, then by length.
RECURSIVE Compare(_, _)
Compare(a, b) ==
  IF a = << >> /\ b = << >> THEN 0
  ELSE IF a = << >> THEN 0 - 1
  ELSE IF b = << >> THEN 1
  ELSE IF Head(a) < Head(b) THEN 0 - 1
  ELSE IF Head(a) > Head(b) THEN 1
  ELSE Compare(Tail(a), Tail(b))

\* A comparison of the common prefix only.
Equals_Prefix(a, b) == \A k \in 1..Len(a) : k <= Len(b) => a[k] = b[k]

\* originalBuffer.equals(downloadedBuffer)
Equals(a, b) == Compare(a, b) = 0

FrameVd == UNCHANGED << pc, started, completed, connOpen, disconnects, bucketId, fileKey,
                        sessionToken, upVars, callVars, pollVars, fsVars, dlVars, summary,
                        vpVars >>

\* 8. const originalBuffer = await fs.readFile(originalPath)
VerifyDownload ==
  /\ At("verifyDownload", "call")
  /\ \/ \E bytes \in Files :
          /\ originalBuffer' = [read |-> TRUE, bytes |-> bytes]
          /\ Goto("readDownloaded")
     \/ /\ Raise(ErrExternal)
        /\ originalBuffer' = originalBuffer
  /\ UNCHANGED << isValid, downloadedBuffer >>
  /\ FrameVd

\* const downloadedBuffer = await fs.readFile(downloadedPath);
\* return originalBuffer.equals(downloadedBuffer), which run() keeps as isValid
VdReadDownloaded ==
  /\ At("verifyDownload", "readDownloaded")
  /\ \/ /\ destFile.exists
        /\ downloadedBuffer' = [read |-> TRUE, bytes |-> destFile.bytes]
        /\ isValid' = Equals(originalBuffer.bytes, destFile.bytes)
        /\ Return(NoRet)
     \/ /\ Raise(ErrExternal)
        /\ UNCHANGED << isValid, downloadedBuffer >>
  /\ originalBuffer' = originalBuffer
  /\ FrameVd

\* await polkadotApi.disconnect()
Disconnect ==
  /\ At("disconnect", "call")
  /\ \/ /\ connOpen' = FALSE
        /\ disconnects' = disconnects + 1
        /\ Return(NoRet)
     \/ /\ Raise(ErrExternal)
        /\ UNCHANGED << connOpen, disconnects >>
  /\ UNCHANGED << pc, started, completed, bucketId, isValid, fileKey, sessionToken,
                  upVars, callVars, pollVars, ioVars, vpVars >>

\* ------------------------------------------------------------- uploadFile
\* addr.split('/p2p/').pop(): the text after the last "/p2p/" of addr, and
\* the whole of addr when addr holds no "/p2p/".
LastSegment(addr) ==
  LET at == { k \in 1..Len(addr) : addr[k] = P2P }
  IN  IF at = {} THEN addr
      ELSE LET last == CHOOSE k \in at : \A j \in at : j <= k
           IN  SubSeq(addr, last + 1, Len(addr))

\* !!id of a string: the empty string is falsy.
Truthy(id) == Len(id) > 0

\* (multiaddresses ?? []).map((addr) => addr.split('/p2p/').pop()).filter((id) => !!id)
extractPeerIDs(list) ==
  SelectSeq([k \in 1..Len(list) |-> LastSegment(list[k])], Truthy)

\* !multiaddresses?.length
MultiaddressesMissing(m) == ~m.present \/ Len(m.list) = 0

\* fileManager.computeFileKey(owner, bucketIdH256, fileName)
ComputeFileKey(owner, bucket, name) == << owner, bucket, name >>

\* What uploadFile logs about the record it read back from the chain.
BucketIdMatches == storageRequestData.bucketId = bucketId
FingerprintMatches == storageRequestData.fingerprint = LocalFingerprint

\* getFingerprint, getMspInfo, and the two checks of the multiaddresses.
UpGetMspInfo ==
  /\ At("uploadFile", "call")
  /\ \/ /\ Raise(ErrExternal)
        /\ UNCHANGED << multiaddresses, peerIds >>
     \/ \E m \in MultiaddressValues :
          /\ multiaddresses' = m
          /\ IF MultiaddressesMissing(m)
             THEN /\ Raise(ErrMultiaddressesMissing)
                  /\ peerIds' = peerIds
             ELSE /\ peerIds' = extractPeerIDs(m.list)
                  /\ IF Len(peerIds') = 0
                     THEN Raise(ErrNoPeerId)
                     ELSE Goto("issueStorageRequest")
  /\ UNCHANGED << pc, runVars, fileKey, sessionToken, storageRequestData, uploadReceipt,
                  txHash, receiptStatus, siweSession, authProfile, callVars, pollVars, ioVars, vpVars >>

\* A transaction that failed taken for one that succeeded.
ReceiptOk_Any(status) == TRUE

\* !txHash
HasTxHash(hash) == hash # "undefined"

\* receipt.status !== 'success'
ReceiptOk(status) == status = "success"

\* uploadReceipt.status !== 'upload_successful'
UploadOk(status) == status = "upload_successful"

\* const txHash = await storageHubClient.issueStorageRequest(..., peerIds, ...)
UpIssueStorageRequest ==
  /\ At("uploadFile", "issueStorageRequest")
  /\ txSubmitted' = txSubmitted + 1
  /\ \/ \E hash \in {"0xtx", "undefined"} :
          /\ txHash' = hash
          /\ IF HasTxHash(hash) THEN Goto("waitForTransactionReceipt")
             ELSE Raise(ErrNoTxHash)
     \/ /\ Raise(ErrExternal)
        /\ txHash' = txHash
  /\ UNCHANGED << pc, runVars, fileKey, sessionToken, multiaddresses, peerIds,
                  storageRequestData, uploadReceipt, receiptStatus, siweSession,
                  authProfile, authCalls, uploadCalls, pollVars, ioVars, vpVars >>

\* const receipt = await publicClient.waitForTransactionReceipt({ hash: txHash })
UpWaitForTransactionReceipt ==
  /\ At("uploadFile", "waitForTransactionReceipt")
  /\ \/ \E status \in {"success", "reverted"} :
          /\ receiptStatus' = status
          /\ IF ReceiptOk(status) THEN Goto("storageRequests")
             ELSE Raise(ErrStorageRequestFailed)
     \/ /\ Raise(ErrExternal)
        /\ receiptStatus' = receiptStatus
  /\ UNCHANGED << pc, runVars, fileKey, sessionToken, multiaddresses, peerIds,
                  storageRequestData, uploadReceipt, txHash, siweSession, authProfile,
                  callVars, pollVars, ioVars, vpVars >>

\* computeFileKey, then the storage request is read back and compared.
UpStorageRequests ==
  /\ At("uploadFile", "storageRequests")
  /\ fileKey' = ComputeFileKey(Owner, bucketId, FileName)
  /\ \/ /\ Raise(ErrExternal)
        /\ storageRequestData' = storageRequestData
     \/ \E sr \in StorageRequests :
          IF ~sr.isSome
          THEN /\ Raise(ErrNotOnChain)
               /\ storageRequestData' = storageRequestData
          ELSE /\ storageRequestData' = sr
               /\ Goto("SIWE")
  /\ UNCHANGED << pc, runVars, sessionToken, multiaddresses, peerIds, uploadReceipt,
                  txHash, receiptStatus, siweSession, authProfile, callVars, pollVars, ioVars, vpVars >>

\* The session provider handing out a session whether or not there is a token.
SessionProvider_Always ==
  [present |-> TRUE, token |-> sessionToken, address |-> Owner]

\* sessionToken ? { token: sessionToken, user: { address } } : undefined
SessionProvider ==
  IF sessionToken \notin {"undefined", ""}
  THEN [present |-> TRUE, token |-> sessionToken, address |-> Owner]
  ELSE [present |-> FALSE, token |-> "undefined", address |-> "undefined"]

\* authenticateUser: the sign-in exchange; its token becomes the session token.
AuthSIWE ==
  /\ At("uploadFile", "SIWE")
  /\ authCalls' = authCalls + 1
  /\ \/ /\ \E t \in SessionTokens : siweSession' = t
        /\ sessionToken' = siweSession'
        /\ Goto("getProfile")
     \/ /\ Raise(ErrExternal)
        /\ UNCHANGED << sessionToken, siweSession >>
  /\ UNCHANGED << pc, runVars, fileKey, multiaddresses, peerIds, storageRequestData,
                  uploadReceipt, txHash, receiptStatus, authProfile, txSubmitted,
                  uploadCalls, pollVars, ioVars, vpVars >>

\* authenticateUser: the profile fetch that follows the sign-in.
AuthGetProfile ==
  /\ At("uploadFile", "getProfile")
  /\ \/ /\ authProfile' = "profile"
        /\ Goto("uploadFile")
     \/ /\ Raise(ErrExternal)
        /\ authProfile' = authProfile
  /\ UNCHANGED << pc, runVars, fileKey, sessionToken, multiaddresses, peerIds,
                  storageRequestData, uploadReceipt, txHash, receiptStatus, siweSession,
                  callVars, pollVars, ioVars, vpVars >>

\* const uploadReceipt = await mspClient.files.uploadFile(...), and its check.
UpUploadFile ==
  /\ At("uploadFile", "uploadFile")
  /\ uploadCalls' = uploadCalls + 1
  /\ \/ \E status \in {"upload_successful", "upload_failed"} :
          /\ uploadReceipt' = status
          /\ IF UploadOk(status) THEN Return(NoRet) ELSE Raise(ErrUploadFailed)
     \/ /\ uploadReceipt' = uploadReceipt
        /\ Raise(ErrExternal)
  /\ UNCHANGED << pc, runVars, fileKey, sessionToken, multiaddresses, peerIds,
                  storageRequestData, txHash, receiptStatus, siweSession, authProfile,
                  txSubmitted, authCalls, pollVars, ioVars, vpVars >>

\* ------------------------------------------------ waitForMSPConfirmOnChain
\* What polkadotApi.query.fileSystem.storageRequests(fileKey) may hold for the
\* wait: nothing (isNone), or a record whose msp is absent or is a pair of a
\* provider id and a confirmation flag.
ChainRequests ==
  { [isSome |-> FALSE, mspIsSome |-> FALSE, flag |-> FALSE],
    [isSome |-> TRUE, mspIsSome |-> FALSE, flag |-> FALSE],
    [isSome |-> TRUE, mspIsSome |-> TRUE, flag |-> FALSE],
    [isSome |-> TRUE, mspIsSome |-> TRUE, flag |-> TRUE] }

\* An assigned provider taken for a confirmation, whatever its flag.
MspConfirmed_AnyProvider(req) == req.mspIsSome

\* mspTuple ? mspTuple[1].isTrue : false, mspTuple being null when msp.isNone
MspConfirmed(req) == IF req.mspIsSome THEN req.flag ELSE FALSE

AtLoopHead(step) == pc = step /\ fpc \in {"call", "loop"}

\* for (let i = 0; i < maxAttempts; i++)
MspContinue == i < MspMaxAttempts

\* The loop without its isNone check: a missing record is one more record
\* that is not confirmed.
MspOnRequest_NoGoneCheck(req) ==
  IF MspConfirmed(req) THEN Return(NoRet)
  ELSE Goto("delay")

\* What the loop does with the record it read: isNone throws, a confirmed
\* record returns, anything else goes on to the sleep.
MspOnRequest(req) ==
  IF ~req.isSome THEN Raise(ErrGone(fileKey))
  ELSE IF MspConfirmed(req) THEN Return(NoRet)
  ELSE Goto("delay")

\* One turn of the loop up to its sleep: the read, the isNone check and the
\* confirmation check.
MspAttempt ==
  /\ AtLoopHead("waitForMSPConfirmOnChain")
  /\ MspContinue
  /\ reads' = reads + 1
  /\ \/ /\ Raise(ErrExternal)
        /\ hist' = hist
     \/ \E req \in ChainRequests :
          /\ hist' = Append(hist, req)
          /\ MspOnRequest(req)
  /\ UNCHANGED << pc, runVars, fileKey, sessionToken, upVars, callVars, i, delays, sleptMs,
                  resp, onlyPending, ioVars, vpVars >>

\* The loop without a sleep after its last attempt.
MspDelay_NoSleepAfterLast ==
  /\ At("waitForMSPConfirmOnChain", "delay")
  /\ delays' = IF i + 1 < MspMaxAttempts THEN delays + 1 ELSE delays
  /\ sleptMs' = IF i + 1 < MspMaxAttempts THEN sleptMs + MspDelayMs ELSE sleptMs
  /\ i' = i + 1
  /\ Goto("loop")
  /\ UNCHANGED << pc, runVars, fileKey, sessionToken, upVars, callVars, reads, hist, resp,
                  onlyPending, ioVars, vpVars >>

\* await new Promise((r) => setTimeout(r, delayMs)), then i++
MspDelay ==
  /\ At("waitForMSPConfirmOnChain", "delay")
  /\ delays' = delays + 1
  /\ sleptMs' = sleptMs + MspDelayMs
  /\ i' = i + 1
  /\ Goto("loop")
  /\ UNCHANGED << pc, runVars, fileKey, sessionToken, upVars, callVars, reads, hist, resp,
                  onlyPending, ioVars, vpVars >>

\* The loop is over: throw new Error(`FileKey ... ${maxAttempts * delayMs} ms`)
MspTimeout ==
  /\ AtLoopHead("waitForMSPConfirmOnChain")
  /\ ~MspContinue
  /\ Raise(ErrMspTimeout(fileKey, MspMaxAttempts * MspDelayMs))
  /\ UNCHANGED << pc, runVars, fileKey, sessionToken, upVars, callVars, pollVars, ioVars, vpVars >>

\* ------------------------------------------------- waitForBackendFileReady
Statuses == {"ready", "revoked", "rejected", "expired", "pending", "inProgress"}

\* What a failed getFileInfo request may throw: with or without an HTTP
\* status, with or without a body.
RequestErrors ==
  { [Error("getFileInfo request failed") EXCEPT !.status = s, !.body = b] :
      s \in {0, HttpNotFound, 500}, b \in {"none", "Not found: Record", "Internal error"} }

\* What mspClient.files.getFileInfo(bucketId, fileKey) may do: resolve with a
\* file info, or reject.
FileReplies ==
  { [kind |-> "info", status |-> s, meta |-> m, error |-> NoError] :
      s \in Statuses, m \in Metas }
    \cup { [kind |-> "error", status |-> "none", meta |-> "none", error |-> e] :
             e \in RequestErrors }

\* The not-found test on the HTTP status alone.
IsNotFound_StatusOnly(e) == e.status = HttpNotFound

\* error?.status === 404 || error?.body?.error === 'Not found: Record'
IsNotFound(e) == e.status = HttpNotFound \/ e.body = "Not found: Record"

\* The catch clause: a not-found error falls through to the sleep, any other
\* error is thrown again.
Catch(e) == IF IsNotFound(e) THEN Goto("delay") ELSE Raise(e)

\* The try block without its `expired` branch: an expired request waits on.
OnFileInfo_NoExpired(fileInfo) ==
  IF fileInfo.status = "ready" THEN Return(fileInfo)
  ELSE IF fileInfo.status = "revoked" THEN Catch(ErrRevoked)
  ELSE IF fileInfo.status = "rejected" THEN Catch(ErrRejected)
  ELSE Goto("delay")

\* The try block returning on any status it does not reject.
OnFileInfo_ReturnsUnlessFatal(fileInfo) ==
  IF fileInfo.status = "revoked" THEN Catch(ErrRevoked)
  ELSE IF fileInfo.status = "rejected" THEN Catch(ErrRejected)
  ELSE IF fileInfo.status = "expired" THEN Catch(ErrExpired)
  ELSE Return(fileInfo)

\* The try block on a file info: the four statuses it tells apart; the
\* errors it throws are thrown inside the try, hence caught by Catch.
OnFileInfo(fileInfo) ==
  IF fileInfo.status = "ready" THEN Return(fileInfo)
  ELSE IF fileInfo.status = "revoked" THEN Catch(ErrRevoked)
  ELSE IF fileInfo.status = "rejected" THEN Catch(ErrRejected)
  ELSE IF fileInfo.status = "expired" THEN Catch(ErrExpired)
  ELSE Goto("delay")

\* The loop bound off by one: a 145th query.
FileContinue_OffByOne == i <= FileMaxAttempts

\* for (let i = 0; i < maxAttempts; i++)
FileContinue == i < FileMaxAttempts

\* A file info whose status makes the loop wait: any but the four it names.
IsPending(r) ==
  r.kind = "info" /\ r.status \notin {"ready", "revoked", "rejected", "expired"}

\* One turn of the loop up to its sleep: the query and the try/catch.
FileAttempt ==
  /\ AtLoopHead("waitForBackendFileReady")
  /\ FileContinue
  /\ reads' = reads + 1
  /\ \E r \in FileReplies :
       /\ resp' = r
       /\ onlyPending' = (onlyPending /\ IsPending(r))
       /\ IF r.kind = "error" THEN Catch(r.error) ELSE OnFileInfo(r)
  /\ UNCHANGED << pc, runVars, fileKey, sessionToken, upVars, callVars, i, delays, sleptMs,
                  hist, ioVars, vpVars >>

\* await new Promise((r) => setTimeout(r, delayMs)), then i++
FileDelay ==
  /\ At("waitForBackendFileReady", "delay")
  /\ delays' = delays + 1
  /\ sleptMs' = sleptMs + FileDelayMs
  /\ i' = i + 1
  /\ Goto("loop")
  /\ UNCHANGED << pc, runVars, fileKey, sessionToken, upVars, callVars, reads, hist, resp,
                  onlyPending, ioVars, vpVars >>

\* The loop is over: throw new Error('Timed out waiting for MSP backend ...')
FileTimeout ==
  /\ AtLoopHead("waitForBackendFileReady")
  /\ ~FileContinue
  /\ Raise(ErrFileTimeout)
  /\ UNCHANGED << pc, runVars, fileKey, sessionToken, upVars, callVars, pollVars, ioVars, vpVars >>

\* ------------------------------------------------------------- the system
Next ==
  \/ InitWasm
  \/ RunNext
  \/ RunAbort
  \/ GetMspHealth
  \/ GetValueProps
  \/ CreateBucket
  \/ VerifyBucketCreation
  \/ WaitForBackendBucketReady
  \/ UpGetMspInfo
  \/ UpIssueStorageRequest
  \/ UpWaitForTransactionReceipt
  \/ UpStorageRequests
  \/ AuthSIWE
  \/ AuthGetProfile
  \/ UpUploadFile
  \/ MspAttempt
  \/ MspDelay
  \/ MspTimeout
  \/ FileAttempt
  \/ FileDelay
  \/ FileTimeout
  \/ DlRequest
  \/ DlOpen
  \/ DlChunk
  \/ DlFlush
  \/ DlSourceEnd
  \/ DlSourceError
  \/ DlFinish
  \/ DlStat
  \/ VerifyDownload
  \/ VdReadDownloaded
  \/ Disconnect

Spec == Init /\ [][Next]_vars

\* Every await of the code settles: a step that can be taken is taken.
FairSpec == Spec /\ WF_vars(Next)

\* =====================================================================
\* Properties
\* =====================================================================
InFileWait == pc = "waitForBackendFileReady"
InMspWait == pc = "waitForMSPConfirmOnChain"
Settled == fpc \in {"returned", "threw"}
\* run() failed in the step `step`.
FailedIn(step) ==
  /\ pc = "failed"
  /\ Len(started) > 0
  /\ started[Len(started)] = step
  /\ Len(completed) = Len(started) - 1
FileWaitOrAfterItsFailure == InFileWait \/ FailedIn("waitForBackendFileReady")
MspWaitOrAfterItsFailure == InMspWait \/ FailedIn("waitForMSPConfirmOnChain")
\* The wait has thrown err, and run() may already have ended on it.
Threw(e) == fpc \in {"threw", "none"} /\ err = e

\* C1: waitForBackendFileReady terminates when the backend keeps answering
\* with a status to wait on: it never issues more than 144 queries, the
\* timeout error is raised after exactly 144 queries (and 144 turns of the
\* loop), the step after the 144th turn is that throw and issues no query,
\* and under fair scheduling the wait always ends.
C1_Bounded ==
  FileWaitOrAfterItsFailure =>
    /\ reads <= FileMaxAttempts
    /\ (err = ErrFileTimeout => reads = FileMaxAttempts /\ i = FileMaxAttempts)
    /\ (onlyPending /\ reads = FileMaxAttempts /\ fpc \notin {"delay", "loop"}
          => Threw(ErrFileTimeout))
C1_ThenThrows ==
  (InFileWait /\ fpc = "loop" /\ reads = FileMaxAttempts)
    => (fpc' = "threw" /\ err' = ErrFileTimeout /\ reads' = reads)
C1_Terminates == InFileWait ~> (InFileWait /\ Settled)
\* C1: at most 144 queries, the timeout after exactly 144, the throw right
\* after the 144th turn, and the wait always ends.
C1_Theorem == [](C1_Bounded) /\ [][C1_ThenThrows]_vars /\ C1_Terminates
C1_Witness ==
  /\ InFileWait
  /\ onlyPending
  /\ resp.status = "pending"
  /\ reads = FileMaxAttempts
  /\ fpc = "threw"
  /\ err = ErrFileTimeout

\* C2: the first reply whose status is revoked, rejected or expired fails the
\* wait with the error of that status, at whatever attempt it arrives
\* (attempt i + 1 <= 144); that reply is the last query and no delay follows
\* it (reads = i + 1 and delays = i hold from then on).
FatalError(status) ==
  CASE status = "revoked" -> ErrRevoked
    [] status = "rejected" -> ErrRejected
    [] status = "expired" -> ErrExpired
C2_Theorem ==
  (FileWaitOrAfterItsFailure /\ resp.kind = "info"
     /\ resp.status \in {"revoked", "rejected", "expired"})
    => /\ Threw(FatalError(resp.status))
       /\ reads = i + 1
       /\ reads <= FileMaxAttempts
       /\ delays = i
C2_Witness ==
  /\ InFileWait
  /\ resp.kind = "info"
  /\ resp.status = "expired"
  /\ fpc = "threw"
  /\ err = ErrExpired
  /\ reads = 3

\* C3: a getFileInfo request that fails with HTTP 404 or with the body
\* error 'Not found: Record' does not fail the wait: it uses up one attempt
\* (reads = i + 1 before the sleep, reads = i after it) and the loop goes on,
\* to end only by the timeout if it was the 144th; a request that fails with
\* any other error ends the wait with that same error, as its last query.
ClaimedNotFound(e) == e.status = 404 \/ e.body = "Not found: Record"
C3_Theorem ==
  (FileWaitOrAfterItsFailure /\ resp.kind = "error")
    => IF ClaimedNotFound(resp.error)
       THEN \/ fpc = "delay" /\ reads = i + 1 /\ delays = i /\ err = NoError
            \/ fpc = "loop" /\ reads = i /\ delays = i /\ err = NoError
            \/ Threw(ErrFileTimeout) /\ reads = FileMaxAttempts /\ i = reads
       ELSE /\ Threw(resp.error)
            /\ reads = i + 1
            /\ delays = i
C3_Witness ==
  /\ InFileWait
  /\ resp.kind = "error"
  /\ resp.error.status = 500
  /\ resp.error.body = "Not found: Record"
  /\ fpc = "loop"
  /\ reads = 2
  /\ i = 2

\* C4: waitForBackendFileReady has returned only if the reply of the attempt
\* it returned at has status ready, and what it returns is that reply.
C4_Theorem ==
  (InFileWait /\ fpc = "returned")
    => /\ resp.kind = "info"
       /\ resp.status = "ready"
       /\ ret = resp
       /\ ret.meta \in Metas
       /\ reads = i + 1
C4_Witness ==
  /\ InFileWait
  /\ fpc = "returned"
  /\ ret.status = "ready"
  /\ ret.meta = "meta2"
  /\ reads = 5
  /\ ~onlyPending

\* C5: waitForMSPConfirmOnChain throws the "no longer exists" error, which
\* is not the timeout error, at the first attempt whose read finds no storage
\* request: every earlier read found one, that read is the last (reads = i + 1
\* stays), no delay follows it (delays = i stays), whatever the attempt.
Last(s) == s[Len(s)]
C5_Theorem ==
  (MspWaitOrAfterItsFailure /\ hist # << >> /\ ~Last(hist).isSome)
    => /\ Threw(ErrGone(fileKey))
       /\ err.msg # ErrMspTimeout(fileKey, MspMaxAttempts * MspDelayMs).msg
       /\ \A k \in 1..(Len(hist) - 1) : hist[k].isSome
       /\ reads = Len(hist)
       /\ reads = i + 1
       /\ reads <= MspMaxAttempts
       /\ delays = i
C5_Witness ==
  /\ InMspWait
  /\ Len(hist) = 4
  /\ ~Last(hist).isSome
  /\ fpc = "threw"
  /\ delays = 3

\* C6: waitForMSPConfirmOnChain has returned exactly when the last record it
\* read, at an attempt k <= 10, is present with an assigned provider whose
\* flag is true; every record read before the last was present and not
\* confirmed (a record with no provider being not confirmed); a last record
\* that is present and not confirmed never makes it return; and after 10
\* such records the only step left is the throw of the timeout error, which
\* is raised after exactly 10 reads.
ClaimedConfirmed(r) == r.isSome /\ r.mspIsSome /\ r.flag
ClaimedWaiting(r) == r.isSome /\ ~(r.mspIsSome /\ r.flag)
C6_Theorem ==
  MspWaitOrAfterItsFailure =>
    /\ Len(hist) <= MspMaxAttempts
    /\ \A k \in 1..(Len(hist) - 1) : ClaimedWaiting(hist[k])
    /\ (fpc = "returned") <=> (hist # << >> /\ ClaimedConfirmed(Last(hist)))
    /\ (fpc = "returned") => (reads = Len(hist) /\ reads = i + 1)
    /\ (hist # << >> /\ ClaimedWaiting(Last(hist)))
         => \/ fpc \in {"delay", "loop"}
            \/ Threw(ErrMspTimeout(fileKey, MspMaxAttempts * MspDelayMs))
            \/ Threw(ErrExternal)
    /\ Threw(ErrMspTimeout(fileKey, MspMaxAttempts * MspDelayMs))
         => (reads = MspMaxAttempts /\ Len(hist) = MspMaxAttempts
             /\ ClaimedWaiting(Last(hist)))
    /\ (fpc = "loop" /\ Len(hist) = MspMaxAttempts)
         => (ENABLED MspTimeout /\ ~ENABLED MspAttempt /\ ~ENABLED MspDelay)
C6_Witness ==
  /\ InMspWait
  /\ fpc = "returned"
  /\ Len(hist) = 3
  /\ ~hist[1].mspIsSome
  /\ hist[2].mspIsSome

\* C7: the steps of run() start in the order of Order, each once, each only
\* when the one before it has returned, one at a time; a step that throws
\* ends run() as failed and no step is started after it.
IsPrefix(s, t) == Len(s) <= Len(t) /\ \A k \in 1..Len(s) : s[k] = t[k]
Steps == { Order[k] : k \in 1..Len(Order) }
C7_Order ==
  /\ IsPrefix(started, Order)
  /\ IsPrefix(completed, started)
  /\ Len(started) - Len(completed) \in {0, 1}
  /\ pc \in Steps => (Len(started) = Len(completed) + 1 /\ Last(started) = pc)
  /\ pc = "initWasm" => started = << >>
  /\ pc = "done" => (started = Order /\ completed = Order)
  /\ pc = "failed" =>
       (fpc = "none" /\ err # NoError
        /\ (started = << >> \/ Len(started) = Len(completed) + 1))
  /\ (txSubmitted > 0 \/ authCalls > 0 \/ uploadCalls > 0)
       => Len(started) >= IndexOf("uploadFile")
  /\ (reads > 0 /\ hist # << >>) => Last(started) = "waitForMSPConfirmOnChain"
  /\ resp # NoResp => Last(started) = "waitForBackendFileReady"
  /\ disconnects > 0 => Len(started) = Len(Order)
  /\ txSubmitted <= 1 /\ authCalls <= 1 /\ uploadCalls <= 1 /\ disconnects <= 1
C7_Step ==
  /\ pc \notin {"failed", "done"}
  /\ fpc = "threw" => (pc' = "failed" /\ started' = started /\ completed' = completed)
  /\ started' # started =>
       (fpc = "returned" /\ Len(started) < Len(Order)
        /\ started' = Append(started, Order[Len(started) + 1]))
\* C7: the order of the steps holds in every state, and every step of run()
\* keeps it: a throw ends the run, a start follows a return.
C7_Theorem == [](C7_Order) /\ [][C7_Step]_vars
C7_Witness == pc = "done" /\ completed = Order /\ started = Order

\* C8: the chain connection is closed at most once; a run that ended well
\* closed it exactly once, as its last step; a run that failed never closed
\* it and leaves it open.
C8_Theorem ==
  /\ disconnects <= 1
  /\ connOpen <=> disconnects = 0
  /\ pc = "done" => (disconnects = 1 /\ ~connOpen /\ Last(completed) = "disconnect")
  /\ pc = "failed" => (disconnects = 0 /\ connOpen)
  /\ disconnects = 1 => (pc = "done" \/ (pc = "disconnect" /\ fpc = "returned"))
C8_Witness ==
  /\ FailedIn("waitForBackendFileReady")
  /\ connOpen
  /\ disconnects = 0

\* C9 (as claimed): when the storage request read back from the chain carries
\* a bucket id or a fingerprint other than the submitted one, uploadFile has
\* thrown and neither the authentication nor the upload has been called.
C9_Claim ==
  (pc = "uploadFile" /\ storageRequestData.isSome
     /\ (~BucketIdMatches \/ ~FingerprintMatches))
    => (fpc = "threw" /\ authCalls = 0 /\ uploadCalls = 0)

\* C10 (as claimed): uploadFile throws "multiaddresses missing" when the
\* provider reports no multiaddresses, and "no peer ID found" when it reports
\* some but none of them carries a /p2p/<id> segment, in both cases before
\* any storage-request transaction is submitted.
CarriesPeerId(addr) ==
  \E k \in 1..(Len(addr) - 1) : addr[k] = P2P /\ addr[k + 1] # P2P
GotMspInfo == pc = "uploadFile" /\ fpc # "call" /\ ~(fpc = "threw" /\ err = ErrExternal /\ txSubmitted = 0)
C10_Missing ==
  (GotMspInfo /\ (~multiaddresses.present \/ multiaddresses.list = << >>))
    => (fpc = "threw" /\ err = ErrMultiaddressesMissing /\ txSubmitted = 0)
C10_NoPeerId ==
  (GotMspInfo /\ multiaddresses.present /\ multiaddresses.list # << >>
     /\ \A k \in 1..Len(multiaddresses.list) : ~CarriesPeerId(multiaddresses.list[k]))
    => (fpc = "threw" /\ err = ErrNoPeerId /\ txSubmitted = 0)
\* C10 (as claimed): both errors are raised, each before any transaction.
C10_Claim == C10_Missing /\ C10_NoPeerId

\* C11: in uploadFile the upload to the backend is called only after the
\* transaction returned a hash, then its receipt reported success, then the
\* storage request was found on the chain under the derived file key, then
\* the authentication completed; when one of these fails the upload is never
\* called; and uploadFile returns (the file key and the receipt) only with a
\* receipt whose status is upload_successful.
InUpload == pc = "uploadFile" \/ FailedIn("uploadFile")
C11_Theorem ==
  InUpload =>
    /\ receiptStatus # "none" => (txHash = "0xtx" /\ txSubmitted = 1)
    /\ storageRequestData.isSome =>
         (receiptStatus = "success" /\ fileKey = << Owner, bucketId, FileName >>)
    /\ authCalls > 0 => storageRequestData.isSome
    /\ authProfile # "none" => (authCalls = 1 /\ siweSession # "none")
    /\ uploadCalls > 0 =>
         /\ txHash = "0xtx"
         /\ receiptStatus = "success"
         /\ storageRequestData.isSome
         /\ authProfile = "profile"
         /\ uploadCalls = 1
    /\ (txHash # "0xtx" \/ receiptStatus # "success" \/ ~storageRequestData.isSome
          \/ authProfile # "profile")
         => (uploadCalls = 0 /\ fpc # "returned")
    /\ fpc = "returned" =>
         /\ uploadReceipt = "upload_successful"
         /\ uploadCalls = 1
         /\ fileKey = << Owner, bucketId, FileName >>
C11_Witness ==
  /\ pc = "uploadFile"
  /\ fpc = "returned"
  /\ uploadReceipt = "upload_successful"
  /\ uploadCalls = 1

\* C13 (as claimed): the timeout error of either polling loop names the file
\* key waited on and the budget that elapsed.
MspBudgetMs == MspMaxAttempts * MspDelayMs
FileBudgetMs == FileMaxAttempts * FileDelayMs
MspTimedOut ==
  MspWaitOrAfterItsFailure /\ fpc \in {"threw", "none"} /\ reads = MspMaxAttempts
    /\ i = MspMaxAttempts
FileTimedOut ==
  FileWaitOrAfterItsFailure /\ fpc \in {"threw", "none"} /\ reads = FileMaxAttempts
    /\ i = FileMaxAttempts
C13_Msp == MspTimedOut => (err.key = fileKey /\ err.key # NoFileKey /\ err.ms = MspBudgetMs)
C13_File == FileTimedOut => (err.key = fileKey /\ err.key # NoFileKey /\ err.ms = FileBudgetMs)
\* C13 (as claimed): both loops' timeout errors name the key and the budget.
C13_Claim == C13_Msp /\ C13_File

\* C14 (as claimed): the peer ids submitted with the storage request are
\* exactly the texts that follow the "/p2p/" of the reported addresses, in
\* order; an address with no "/p2p/" contributes nothing.
AfterP2P(addr) ==
  LET at == { k \in 1..Len(addr) : addr[k] = P2P }
      last == CHOOSE k \in at : \A j \in at : j <= k
  IN  SubSeq(addr, last + 1, Len(addr))
HasP2P(addr) == \E k \in 1..Len(addr) : addr[k] = P2P
RECURSIVE ClaimedPeerIds(_)
ClaimedPeerIds(list) ==
  IF list = << >> THEN << >>
  ELSE (IF HasP2P(Head(list)) /\ AfterP2P(Head(list)) # << >>
        THEN << AfterP2P(Head(list)) >> ELSE << >>)
       \o ClaimedPeerIds(Tail(list))
Submitted == InUpload /\ txSubmitted > 0
C14_Claim == Submitted => peerIds = ClaimedPeerIds(multiaddresses.list)
\* The same, for the lists in which every address holds a "/p2p/".
C14_WithP2P ==
  (Submitted /\ \A k \in 1..Len(multiaddresses.list) : HasP2P(multiaddresses.list[k]))
    => peerIds = ClaimedPeerIds(multiaddresses.list)

\* C19: in both polling loops no delay precedes the first attempt, a delay
\* follows every attempt that neither returns nor throws, the last included:
\* a wait that returned or threw at attempt k slept k - 1 times, a wait that
\* timed out slept as often as it queried (10 times 2000 ms, the 20000 ms
\* its error names, and 144 times 5000 ms).
InWait(delayMs) ==
  /\ reads = 0 => delays = 0
  /\ sleptMs = delays * delayMs
  /\ fpc = "delay" => delays = reads - 1
  /\ fpc = "loop" => (delays = reads /\ delays = i)
  /\ fpc = "returned" => delays = reads - 1
C19_Theorem ==
  /\ MspWaitOrAfterItsFailure =>
       /\ InWait(MspDelayMs)
       /\ (fpc \in {"threw", "none"} /\ ~MspTimedOut) => delays = reads - 1
       /\ MspTimedOut =>
            (delays = 10 /\ reads = 10 /\ sleptMs = 20000 /\ err.ms = sleptMs)
  /\ FileWaitOrAfterItsFailure =>
       /\ InWait(FileDelayMs)
       /\ (fpc \in {"threw", "none"} /\ ~FileTimedOut) => delays = reads - 1
       /\ FileTimedOut => (delays = 144 /\ reads = 144 /\ sleptMs = 144 * 5000)
C19_Witness ==
  /\ InMspWait
  /\ fpc = "threw"
  /\ delays = 10
  /\ reads = 10
  /\ sleptMs = 20000

\* C20: the session token is absent until the first sign-in exchange has
\* succeeded; only a successful exchange changes it, to the token that
\* exchange returned; a failed exchange and a failed profile fetch leave it
\* as it is; once set it stays; and the session provider yields no session
\* while it is absent and the token with the caller's address once it is set.
C20_State ==
  /\ authCalls = 0 => sessionToken = "undefined"
  /\ sessionToken # "undefined" => (sessionToken \in SessionTokens /\ authCalls = 1)
  /\ SessionProvider.present <=> sessionToken # "undefined"
  /\ SessionProvider.present =>
       (SessionProvider.token = sessionToken /\ SessionProvider.address = Owner)
  /\ InUpload =>
       /\ siweSession = "none" => sessionToken = "undefined"
       /\ siweSession # "none" => sessionToken = siweSession
C20_Step ==
  /\ sessionToken' # sessionToken =>
       /\ At("uploadFile", "SIWE")
       /\ fpc' = "getProfile"
       /\ siweSession' \in SessionTokens
       /\ sessionToken' = siweSession'
  /\ sessionToken # "undefined" => sessionToken' = sessionToken
  /\ (At("uploadFile", "SIWE") /\ fpc' = "threw") => sessionToken' = sessionToken
  /\ At("uploadFile", "getProfile") =>
       (sessionToken' = sessionToken /\ sessionToken \in SessionTokens)
\* C20: the state of the token and of the provider, and every step keeps it.
C20_Theorem == [](C20_State) /\ [][C20_Step]_vars
C20_Witness ==
  /\ FailedIn("uploadFile")
  /\ siweSession = "token2"
  /\ authProfile = "none"
  /\ sessionToken = "token2"
  /\ SessionProvider.present

\* C12: verifyDownload returns true exactly when the two files have the same
\* length and the same byte at every position, two empty files and two files
\* that differ in their last byte only included; once both files are read it
\* returns, and an inequality is the value false, never an error.
SameBytes(a, b) == Len(a) = Len(b) /\ \A k \in 1..Len(a) : a[k] = b[k]
InVerify == pc = "verifyDownload" \/ FailedIn("verifyDownload")
C12_Theorem ==
  /\ \A a \in Files, b \in Files : Equals(a, b) <=> SameBytes(a, b)
  /\ Equals(<< >>, << >>)
  /\ \A a \in SeqsUpTo(Bytes, MaxFileLen - 1) :
       \A x \in Bytes, y \in Bytes : Equals(Append(a, x), Append(a, y)) <=> x = y
  /\ InVerify =>
       /\ downloadedBuffer.read =>
            /\ originalBuffer.read
            /\ fpc = "returned"
            /\ err = NoError
            /\ downloadedBuffer.bytes = destFile.bytes
            /\ isValid <=> SameBytes(originalBuffer.bytes, downloadedBuffer.bytes)
       /\ fpc = "returned" => downloadedBuffer.read
       /\ fpc \in {"threw", "none"} => (err = ErrExternal /\ ~downloadedBuffer.read)
C12_Witness ==
  /\ pc = "verifyDownload"
  /\ fpc = "returned"
  /\ originalBuffer.bytes = << 0, 0 >>
  /\ downloadedBuffer.bytes = << 0, 1 >>
  /\ ~isValid

\* C15: a verifyDownload that returned false ends the run as one that returned
\* true does: nothing is raised, the next step of run() is the disconnect, the
\* completion line is logged, and a run that is done has closed the connection.
C15_State ==
  /\ (pc = "verifyDownload" /\ fpc = "returned") => err = NoError
  /\ Len(completed) >= IndexOf("verifyDownload") =>
       (summary = << IntegrityLine(isValid), CompletedLine >>
        /\ (pc = "disconnect" \/ FailedIn("disconnect") \/ pc = "done"))
  /\ Len(completed) < IndexOf("verifyDownload") => summary = << >>
  /\ pc = "done" => (err = NoError /\ disconnects = 1 /\ ~connOpen)
C15_Step ==
  (pc = "verifyDownload" /\ fpc = "returned") =>
    /\ pc' = "disconnect"
    /\ fpc' = "call"
    /\ isValid' = isValid
    /\ err' = NoError
    /\ summary' = << IF isValid THEN "PASSED" ELSE "FAILED", "Completed Successfully" >>
C15_Theorem == [](C15_State) /\ [][C15_Step]_vars
C15_Witness ==
  /\ pc = "done"
  /\ ~isValid
  /\ summary = << "FAILED", "Completed Successfully" >>
  /\ disconnects = 1
  /\ ~connOpen

\* C16: when the download response's status is not 200, downloadFile throws
\* the status error, no write stream was created and the file at the
\* destination path is as it was before the run, present or absent.
InDownload == pc = "downloadFile" \/ FailedIn("downloadFile")
C16_Theorem ==
  InDownload =>
    /\ dlStatus \notin {NoStatus, 200} =>
         /\ fpc \in {"threw", "none"}
         /\ err = ErrDownloadStatus(dlStatus)
         /\ wsState = "none"
         /\ srcState = "none"
         /\ received = 0
         /\ destFile = destInit
         /\ ~downloadedFile.resolved
    /\ wsState = "none" => destFile = destInit
    /\ wsState # "none" => dlStatus = 200
C16_Witness ==
  /\ FailedIn("downloadFile")
  /\ dlStatus = HttpNotFound
  /\ destInit = FileOf(<< 1 >>)
  /\ destFile = destInit
  /\ wsState = "none"

\* C17: downloadFile resolves only after the write stream has finished, with
\* every byte it received written; the size it resolves with is the size of
\* the file after that, the number of bytes written; a write stream that
\* failed has rejected the call.
C17_Theorem ==
  InDownload =>
    /\ wsState = "open" =>
         (destFile.exists /\ Len(destFile.bytes) + Len(buffered) = received)
    /\ fpc = "stat" =>
         (wsState = "finished" /\ buffered = << >> /\ Len(destFile.bytes) = received)
    /\ fpc = "returned" =>
         /\ wsState = "finished"
         /\ srcState = "ended"
         /\ buffered = << >>
         /\ downloadedFile.resolved
         /\ downloadedFile.size = received
         /\ downloadedFile.size = Len(destFile.bytes)
         /\ downloadedFile.mime = Mime(contentType)
    /\ downloadedFile.resolved => fpc = "returned"
    /\ wsState = "errored" =>
         (fpc \in {"threw", "none"} /\ err = ErrWriteStream /\ ~downloadedFile.resolved)
C17_Witness ==
  /\ pc = "downloadFile"
  /\ fpc = "returned"
  /\ wsState = "finished"
  /\ received = 2
  /\ downloadedFile.size = 2

\* C18 (as claimed): a downloadFile call that got a 200 response eventually
\* resolves or rejects, whatever the two streams do.
Got200 == pc = "downloadFile" /\ dlStatus = 200
C18_Claim == Got200 ~> (pc = "downloadFile" /\ fpc \in {"returned", "threw"})
\* What does hold: the call settles unless the source stream fails or the
\* size read after 'finish' fails.
C18_Otherwise ==
  Got200 ~> (pc = "downloadFile" /\ fpc \in {"returned", "threw", "unsettled"})
C18_Unsettled ==
  fpc = "unsettled" =>
    (pc = "downloadFile" /\ dlStatus = 200 /\ ~downloadedFile.resolved /\ connOpen
     /\ (srcState = "errored" \/ wsState = "finished"))

\* C21: getValueProps returns the id of the first element of the list the
\* provider offers, whatever the list's length or order, and throws the
\* 'no value propositions' error when the list is empty or the value offered
\* is no list; in that case no bucket is created.
InCreateBucket == pc = "createBucket" \/ FailedIn("createBucket")
Offered == InCreateBucket /\ valueProps.answered
C21_Theorem ==
  /\ \A v \in ValuePropsValues :
       /\ NoneAvailable(v) <=> (~v.isArray \/ v.list = << >>)
       /\ ~NoneAvailable(v) => ChosenValuePropId(v) = Head(v.list).id
  /\ Offered =>
       IF valueProps.isArray /\ valueProps.list # << >>
       THEN /\ valuePropId = Head(valueProps.list).id
            /\ err # ErrNoValueProps
            /\ fpc \in {"createBucket", "returned", "threw", "none"}
       ELSE /\ Threw(ErrNoValueProps)
            /\ valuePropId = "none"
            /\ bucketId = "none"
  /\ (InCreateBucket /\ ~valueProps.answered) =>
       (valuePropId = "none" /\ bucketId = "none" /\ err # ErrNoValueProps)
C21_Witness ==
  /\ pc = "createBucket"
  /\ fpc = "returned"
  /\ valueProps.isArray
  /\ valueProps.list = << [id |-> "0xv2"], [id |-> "0xv1"] >>
  /\ valuePropId = "0xv2"

====
